---- MODULE Spec2Model ----
(***************************************************************************)
(* The progress tracker of the tutoring bot: UserDatabase (src/database.py) *)
(* over its SQLite store.  The store is the committed content of the tables *)
(* users and exercise_history; record_exercise is modelled twice from the   *)
(* same operators: as one action per call (calls that do not overlap) and   *)
(* as one action per store statement (calls of several connections that     *)
(* interleave).                                                             *)
(***************************************************************************)
EXTENDS Integers, Sequences, FiniteSets, Bags, TLC

VARIABLES
    users,         \* table users: telegram_id -> row, or NoRow
    history,       \* table exercise_history: a bag of rows
    today,         \* the wall clock, date.today(), as a day number
    obs,           \* the last record_exercise call made alone: arguments, prior row, outcome
    first_of_day,  \* history variable: telegram_id -> day and streak of the first call of that day
    miss_run,      \* history variable: telegram_id -> the topics missed so far, while every call was a miss on a new topic
    engine,        \* the last call of a LearningEngine function: its arguments and its result
    pc,            \* interleaved calls: connection -> the statement it runs next
    loc,           \* interleaved calls: connection -> the locals of its call
    lock,          \* interleaved calls: the connection holding SQLite's write lock, 0 if none
    conversation_history,  \* OpenAIAPI.conversation_history: user_id -> the list stored, 0 if none
    lists,         \* the list objects of the conversations: list -> its messages
    ask,           \* ask_question coroutines: coroutine -> where it is, and its local conversation
    asked          \* the number of ask_question calls made so far

vars == <<users, history, today, obs, first_of_day, miss_run, engine, pc, loc, lock,
          conversation_history, lists, ask, asked>>

----------------------------------------------------------------------------
(* Bounds of the model *)

MaxDay == 3          \* the clock runs over days 0..MaxDay
MaxTotal == 3        \* calls are made while total_exercises < MaxTotal
NumTopics == 2       \* topics 1..NumTopics, and 0 for the empty topic
MaxStoredStreak == 2 \* streak_days of a row found in an existing store
MaxWideTotal == 6    \* the same as MaxTotal, in the weak-topic specification
NumWideTopics == 6   \* the same as NumTopics, in the weak-topic specification
MaxConcCalls == 2    \* interleaved calls start while fewer rows than this are in exercise_history
MaxConcDay == 1      \* the same as MaxDay, in the specification of interleaved calls
MaxLevelTotal == 60  \* get_user_level is called with 0..MaxLevelTotal exercises
MaxDifficultyTotal == 64  \* calculate_difficulty is called with 0..MaxDifficultyTotal exercises
MaxWeakLen == 4      \* recommend_topics is called with weak_topics of up to this length
MaxUserLen == 3      \* evaluate_answer: characters of user_answer
MaxCorrectLen == 2   \* evaluate_answer: characters of correct_answer
MaxUserWords == 3    \* evaluate_answer: words of user_answer, in the specification of word lists
MaxExpectedWords == 5  \* evaluate_answer: distinct words of correct_answer, there
MaxAsked == 7        \* ask_question is called up to this many times

(* Program constants *)

WeakLimit == 5       \* weak_topics[-5:]
HistoryLimit == 10   \* ask_question: if len(conversation) > 10
KeptTail == 9        \* ask_question: conversation[-9:]

TelegramIds == {1, 2}
Conns == {1, 2}
NoLevel == ""        \* new_level = None

----------------------------------------------------------------------------
(* Values of the store *)

NoRow == [absent |-> TRUE]

NullDate == [kind |-> "null", day |-> 0]     \* last_exercise_date IS NULL
EmptyDate == [kind |-> "empty", day |-> 0]   \* last_exercise_date = ''
BadDate == [kind |-> "bad", day |-> 0]       \* a text date.fromisoformat rejects

\* date.isoformat(): the text of a day
IsoFormat(d) == [kind |-> "iso", day |-> d]

\* date.fromisoformat(s) raises unless s is the text of a day
ParseFails(s) == s.kind # "iso"
FromIsoFormat(s) == s.day

\* Python truth of an Optional[str]
Truthy(s) == s.kind \notin {"null", "empty"}

\* json.dumps / json.loads of the weak_topics column
JsonDumps(list) == [json |-> list]
JsonLoads(text) == text.json

RECURSIVE Gcd(_, _)
Gcd(a, b) == IF b = 0 THEN a ELSE Gcd(b, a % b)

\* a REAL value: the quotient n/d as a reduced fraction
Real(n, d) == LET g == Gcd(n, d) IN <<n \div g, d \div g>>

\* variant: correct // total, the quotient of the integers
AccuracyFloorDivision(correct, total) ==
    IF total # 0 THEN Real(correct \div total, 1) ELSE Real(0, 1)

\* correct / total if total else 0.0
Accuracy(correct, total) == IF total # 0 THEN Real(correct, total) ELSE Real(0, 1)

----------------------------------------------------------------------------
(* LearningEngine.get_user_level (src/learning_engine.py) *)

\* x >= y and x <= y of two REAL values
RealGe(x, y) == x[1] * y[2] >= y[1] * x[2]
RealLe(x, y) == x[1] * y[2] <= y[1] * x[2]

\* variant: the accuracy thresholds are exclusive
GetUserLevelStrict(accuracy, total_exercises) ==
    IF total_exercises < 10 THEN "beginner"
    ELSE IF ~RealLe(accuracy, Real(85, 100)) /\ total_exercises >= 50 THEN "advanced"
    ELSE IF ~RealLe(accuracy, Real(70, 100)) /\ total_exercises >= 20 THEN "intermediate"
    ELSE "beginner"

\* variant: the comparison of the intermediate check is turned round
GetUserLevelReversedComparison(accuracy, total_exercises) ==
    IF total_exercises < 10 THEN "beginner"
    ELSE IF RealGe(accuracy, Real(85, 100)) /\ total_exercises >= 50 THEN "advanced"
    ELSE IF RealLe(accuracy, Real(70, 100)) /\ total_exercises >= 20 THEN "intermediate"
    ELSE "beginner"

GetUserLevel(accuracy, total_exercises) ==
    IF total_exercises < 10 THEN "beginner"
    ELSE IF RealGe(accuracy, Real(85, 100)) /\ total_exercises >= 50 THEN "advanced"
    ELSE IF RealGe(accuracy, Real(70, 100)) /\ total_exercises >= 20 THEN "intermediate"
    ELSE "beginner"

----------------------------------------------------------------------------
(* get_user, get_or_create_user *)

\* SELECT * FROM users WHERE telegram_id = ?; weak_topics decoded
GetUser(us, t) ==
    IF us[t] = NoRow THEN NoRow
    ELSE [us[t] EXCEPT !.weak_topics = JsonLoads(us[t].weak_topics)]

\* AUTOINCREMENT of users.id
NextUserId(us) == Cardinality({t \in TelegramIds : us[t] # NoRow}) + 1

\* INSERT INTO users (telegram_id, username, last_active): the column defaults
InsertUser(us, t, now) ==
    [us EXCEPT ![t] = [id |-> NextUserId(us),
                       level |-> "beginner",
                       total_exercises |-> 0,
                       correct_answers |-> 0,
                       accuracy |-> Real(0, 1),
                       weak_topics |-> JsonDumps(<<>>),
                       streak_days |-> 0,
                       last_exercise_date |-> NullDate,
                       last_active |-> now]]

\* UPDATE users SET username = COALESCE(?, username), last_active = ?
TouchUser(us, t, now) == [us EXCEPT ![t].last_active = now]

\* variant: INSERT OR REPLACE, whether the user is there or not
GetOrCreateUserReplacing(us, t, now) ==
    [us EXCEPT ![t] = [id |-> IF us[t] = NoRow THEN NextUserId(us) ELSE us[t].id,
                       level |-> "beginner",
                       total_exercises |-> 0,
                       correct_answers |-> 0,
                       accuracy |-> Real(0, 1),
                       weak_topics |-> JsonDumps(<<>>),
                       streak_days |-> 0,
                       last_exercise_date |-> NullDate,
                       last_active |-> now]]

\* the store after get_or_create_user has committed
GetOrCreateUser(us, t, now) ==
    IF GetUser(us, t) # NoRow THEN TouchUser(us, t, now) ELSE InsertUser(us, t, now)

\* set_user_level: UPDATE users SET level = ? WHERE telegram_id = ?
SetUserLevel(us, t, level) == IF us[t] = NoRow THEN us ELSE [us EXCEPT ![t].level = level]

\* get_user_stats: the dict it returns, but for the two averages over
\* exercise_history; {} without a row.
GetUserStats(us, t) ==
    LET user == GetUser(us, t)
    IN  IF user = NoRow THEN NoRow
        ELSE [level |-> user.level,
              accuracy |-> user.accuracy,
              total_exercises |-> user.total_exercises,
              correct_answers |-> user.correct_answers,
              weak_topics |-> user.weak_topics,
              streak_days |-> user.streak_days]

\* sums, differences, min and max of REAL values
RealAdd(x, y) == Real(x[1] * y[2] + y[1] * x[2], x[2] * y[2])
RealSub(x, y) == Real(x[1] * y[2] - y[1] * x[2], x[2] * y[2])
RealMin(x, y) == IF RealLe(y, x) THEN y ELSE x
RealMax(x, y) == IF RealGe(y, x) THEN y ELSE x

\* x or default: 0.0 is falsy
FloatOr(x, default) == IF x[1] = 0 THEN default ELSE x

\* variant: the rising difficulty is not capped
CalculateDifficultyUncapped(user_stats) ==
    LET accuracy == FloatOr(user_stats.accuracy, Real(1, 2))
        total == user_stats.total_exercises
    IN  IF total < 5 THEN Real(3, 10)
        ELSE IF RealGe(accuracy, Real(9, 10)) THEN RealAdd(Real(55, 100), Real(total, 120))
        ELSE IF RealLe(accuracy, Real(1, 2))
             THEN RealMax(Real(2, 10), RealSub(Real(45, 100), Real(total, 250)))
        ELSE Real(1, 2)

\* calculate_difficulty, of a user_stats dict with accuracy and total_exercises
CalculateDifficulty(user_stats) ==
    LET accuracy == FloatOr(user_stats.accuracy, Real(1, 2))
        total == user_stats.total_exercises
    IN  IF total < 5 THEN Real(3, 10)
        ELSE IF RealGe(accuracy, Real(9, 10))
             THEN RealMin(Real(9, 10), RealAdd(Real(55, 100), Real(total, 120)))
        ELSE IF RealLe(accuracy, Real(1, 2))
             THEN RealMax(Real(2, 10), RealSub(Real(45, 100), Real(total, 250)))
        ELSE Real(1, 2)

\* self.topics, set by __init__
Topics ==
    [beginner |-> <<"Present Simple", "To be", "Articles (a/an/the)", "Plural nouns",
                    "Basic pronouns">>,
     intermediate |-> <<"Past Simple", "Present Continuous", "Future Simple", "Comparatives",
                        "Modal verbs">>,
     advanced |-> <<"Present Perfect", "Past Perfect", "Conditionals", "Passive Voice",
                    "Reported Speech">>]

\* list[:n]
Prefix(list, n) == IF Len(list) > n THEN SubSeq(list, 1, n) ELSE list

\* self.topics.get(user_level, self.topics["beginner"])
TopicsGet(user_level) ==
    IF user_level \in DOMAIN Topics THEN Topics[user_level] ELSE Topics["beginner"]

\* variant: weak_topics[-3:], the three topics missed last
RecommendTopicsLastThree(user_level, weak_topics) ==
    IF weak_topics # <<>>
    THEN IF Len(weak_topics) > 3
         THEN SubSeq(weak_topics, Len(weak_topics) - 2, Len(weak_topics))
         ELSE weak_topics
    ELSE Prefix(TopicsGet(user_level), 5)

RecommendTopics(user_level, weak_topics) ==
    IF weak_topics # <<>> THEN Prefix(weak_topics, 3) ELSE Prefix(TopicsGet(user_level), 5)

\* A str is the sequence of its characters; None is a value that is no str.
None == <<"None">>

\* the classes of the characters the model draws answers from: \s, \w, and
\* str.lower of the one upper-case letter
IsSpace(ch) == ch = " "
IsWordChar(ch) == ch \in {"a", "b", "c", "d", "e", "f", "A", "_", "0"}
ToLower(ch) == IF ch = "A" THEN "a" ELSE ch

RECURSIVE LStrip(_)
LStrip(text) == IF text # <<>> /\ IsSpace(Head(text)) THEN LStrip(Tail(text)) ELSE text

RECURSIVE RStrip(_)
RStrip(text) ==
    IF text # <<>> /\ IsSpace(text[Len(text)]) THEN RStrip(SubSeq(text, 1, Len(text) - 1))
    ELSE text

\* text.strip()
Strip(text) == RStrip(LStrip(text))

\* text.lower()
Lower(text) == IF text = <<>> THEN <<>> ELSE [i \in 1..Len(text) |-> ToLower(text[i])]

\* re.sub(r"(?!\b\w+'\w+\b)[^\w\s']", " ", text): the character the pattern
\* consumes is none of \w, \s and ', and the lookahead at the same position
\* asks for a \w there, so the lookahead never stops a match: every character
\* that is none of \w, \s and ' becomes a space, and every ' stays
SubPunctuation(text) ==
    IF text = <<>> THEN <<>>
    ELSE [i \in 1..Len(text) |->
             IF IsWordChar(text[i]) \/ IsSpace(text[i]) \/ text[i] = "'" THEN text[i] ELSE " "]

\* re.sub(r"\s+", " ", text)
RECURSIVE CollapseSpaces(_)
CollapseSpaces(text) ==
    IF text = <<>> THEN <<>>
    ELSE IF IsSpace(Head(text))
         THEN IF Tail(text) # <<>> /\ IsSpace(Head(Tail(text)))
              THEN CollapseSpaces(Tail(text))
              ELSE <<" ">> \o CollapseSpaces(Tail(text))
    ELSE <<Head(text)>> \o CollapseSpaces(Tail(text))

NormalizeAnswer(text) ==
    Strip(CollapseSpaces(SubPunctuation(Lower(Strip(IF text = None THEN <<>> ELSE text)))))

\* set(text.split()): word is the word being read
RECURSIVE WordSet(_, _)
WordSet(text, word) ==
    IF text = <<>> THEN (IF word = <<>> THEN {} ELSE {word})
    ELSE IF IsSpace(Head(text))
         THEN (IF word = <<>> THEN {} ELSE {word}) \cup WordSet(Tail(text), <<>>)
    ELSE WordSet(Tail(text), Append(word, Head(text)))

\* variant: the ratio is taken over the words of the user's answer
CheckPartialMatchOverUserWords(user, correct) ==
    IF user = <<>> \/ correct = <<>> THEN FALSE
    ELSE LET u == WordSet(user, <<>>)
             c == WordSet(correct, <<>>)
         IN  IF c = {} THEN FALSE
             ELSE RealGe(Real(Cardinality(u \cap c), Cardinality(u)), Real(6, 10))

\* _check_partial_match
CheckPartialMatch(user, correct) ==
    IF user = <<>> \/ correct = <<>> THEN FALSE
    ELSE LET u == WordSet(user, <<>>)
             c == WordSet(correct, <<>>)
         IN  IF c = {} THEN FALSE
             ELSE RealGe(Real(Cardinality(u \cap c), Cardinality(c)), Real(6, 10))

\* variant: the partial match is computed for equal answers too
EvaluateAnswerAlwaysPartial(user_answer, correct_answer) ==
    LET user_clean == NormalizeAnswer(user_answer)
        correct_clean == NormalizeAnswer(correct_answer)
    IN  [is_correct |-> user_clean = correct_clean,
         partial_match |-> CheckPartialMatch(user_clean, correct_clean),
         normalized_user |-> user_clean,
         normalized_correct |-> correct_clean]

\* evaluate_answer: the EvaluationResult but for its feedback
EvaluateAnswer(user_answer, correct_answer) ==
    LET user_clean == NormalizeAnswer(user_answer)
        correct_clean == NormalizeAnswer(correct_answer)
        is_correct == user_clean = correct_clean
    IN  [is_correct |-> is_correct,
         partial_match |-> IF ~is_correct THEN CheckPartialMatch(user_clean, correct_clean)
                           ELSE FALSE,
         normalized_user |-> user_clean,
         normalized_correct |-> correct_clean]

\* _generate_feedback: the messages random.choice draws from, by their place in
\* the list
GenerateFeedback(is_correct, partial) ==
    IF is_correct THEN {<<"correct", i>> : i \in 1..4}
    ELSE IF partial THEN {<<"partial", i>> : i \in 1..3}
    ELSE {<<"wrong", i>> : i \in 1..3}

----------------------------------------------------------------------------
(* OpenAIAPI: the conversations *)

\* The users who chat, the coroutines that run ask_question for them, and the
\* list objects there can be at a time: one stored, one local to each
\* coroutine, and the one that is about to replace the stored one.
ChatIds == {1}
Coroutines == {1, 2}
ListIds == {1, 2, 3, 4}

\* self.developer_prompt, and the messages ask_question appends
DeveloperPrompt == [role |-> "system", content |-> "prompt"]
UserMessage(question) == [role |-> "user", content |-> question]
AssistantMessage(answer) == [role |-> "assistant", content |-> answer]

IdleAsk == [pc |-> "idle", user_id |-> 0, conversation |-> 0]

\* a list object is live while the dict or a coroutine refers to it
Live(hist, as) == {hist[u] : u \in ChatIds} \cup {as[c].conversation : c \in Coroutines}
NewList(hist, as) == CHOOSE i \in ListIds \ Live(hist, as) : \A j \in ListIds \ Live(hist, as) : i <= j
Collect(ls, hist, as) == [i \in ListIds |-> IF i \in Live(hist, as) THEN ls[i] ELSE <<>>]

\* [conversation[0]] + conversation[-9:]
Trimmed(conversation) ==
    <<conversation[1]>> \o SubSeq(conversation, Len(conversation) - KeptTail + 1, Len(conversation))

----------------------------------------------------------------------------
(* record_exercise: what it computes from the row it read *)

\* variant: a date of yesterday is not told from an older one
StreakUpdateWithoutYesterday(last_date_str, day) ==
    IF ~Truthy(last_date_str) THEN <<1, IsoFormat(day)>>
    ELSE IF ParseFails(last_date_str) THEN <<1, IsoFormat(day)>>
    ELSE IF FromIsoFormat(last_date_str) = day THEN <<0, IsoFormat(day)>>
    ELSE <<-1, IsoFormat(day)>>

\* variant: last_date >= today keeps the streak
StreakUpdateKeepingFuture(last_date_str, day) ==
    IF ~Truthy(last_date_str) THEN <<1, IsoFormat(day)>>
    ELSE IF ParseFails(last_date_str) THEN <<1, IsoFormat(day)>>
    ELSE IF FromIsoFormat(last_date_str) >= day THEN <<0, IsoFormat(day)>>
    ELSE IF FromIsoFormat(last_date_str) = day - 1 THEN <<1, IsoFormat(day)>>
    ELSE <<-1, IsoFormat(day)>>

\* _streak_update: <<action, today_str>>
StreakUpdate(last_date_str, day) ==
    IF ~Truthy(last_date_str) THEN <<1, IsoFormat(day)>>
    ELSE IF ParseFails(last_date_str) THEN <<1, IsoFormat(day)>>
    ELSE IF FromIsoFormat(last_date_str) = day THEN <<0, IsoFormat(day)>>
    ELSE IF FromIsoFormat(last_date_str) = day - 1 THEN <<1, IsoFormat(day)>>
    ELSE <<-1, IsoFormat(day)>>

\* variant: every call of a day adds to the streak
NewStreakCountingEveryCall(action, streak_days, last_ex_date) ==
    IF action = 0 THEN streak_days + 1
    ELSE IF action = 1 THEN (IF Truthy(last_ex_date) THEN streak_days + 1 ELSE 1)
    ELSE 1

\* variant: a broken streak starts again from 0
NewStreakResettingToZero(action, streak_days, last_ex_date) ==
    IF action = 0 THEN streak_days
    ELSE IF action = 1 THEN (IF Truthy(last_ex_date) THEN streak_days + 1 ELSE 1)
    ELSE 0

\* new_streak of the three actions of _streak_update
NewStreak(action, streak_days, last_ex_date) ==
    IF action = 0 THEN streak_days
    ELSE IF action = 1 THEN (IF Truthy(last_ex_date) THEN streak_days + 1 ELSE 1)
    ELSE 1

NewTotal(user) == user.total_exercises + 1

\* variant: every answer counts as correct
NewCorrectCountingEveryAnswer(user, is_correct) == user.correct_answers + 1

NewCorrect(user, is_correct) == user.correct_answers + (IF is_correct THEN 1 ELSE 0)

\* variant: weak_topics[:5], the oldest are kept
FirstFive(list) == IF Len(list) > WeakLimit THEN SubSeq(list, 1, WeakLimit) ELSE list

\* variant: weak_topics[-6:]
LastFiveOffByOne(list) ==
    IF Len(list) > WeakLimit + 1 THEN SubSeq(list, Len(list) - WeakLimit, Len(list)) ELSE list

\* weak_topics[-5:]
LastFive(list) ==
    IF Len(list) > WeakLimit THEN SubSeq(list, Len(list) - WeakLimit + 1, Len(list)) ELSE list

Contains(list, x) == \E i \in 1..Len(list) : list[i] = x

\* variant: a correct answer takes its topic off the list
NewWeakTopicsForgettingOnSuccess(weak_topics, topic, is_correct) ==
    IF (~is_correct) /\ topic # 0 /\ ~Contains(weak_topics, topic)
    THEN LastFive(Append(weak_topics, topic))
    ELSE IF is_correct THEN SelectSeq(weak_topics, LAMBDA x : x # topic)
    ELSE weak_topics

NewWeakTopics(weak_topics, topic, is_correct) ==
    IF (~is_correct) /\ topic # 0 /\ ~Contains(weak_topics, topic)
    THEN LastFive(Append(weak_topics, topic))
    ELSE weak_topics

\* variant: one UPDATE statement that writes level whether new_level is given or not
UpdateUserAlwaysWritingLevel(us, t, user, topic, is_correct, new_level, day, now) ==
    LET total == user.total_exercises + 1
        correct == user.correct_answers + (IF is_correct THEN 1 ELSE 0)
        su == StreakUpdate(user.last_exercise_date, day)
    IN  IF us[t] = NoRow THEN us
        ELSE [us EXCEPT ![t] =
                [us[t] EXCEPT
                   !.total_exercises = total,
                   !.correct_answers = correct,
                   !.accuracy = Accuracy(correct, total),
                   !.weak_topics = JsonDumps(NewWeakTopics(user.weak_topics, topic, is_correct)),
                   !.level = new_level,
                   !.streak_days = NewStreak(su[1], user.streak_days, user.last_exercise_date),
                   !.last_exercise_date = su[2],
                   !.last_active = now]]

\* variant: UPDATE users without its WHERE telegram_id = ?
UpdateUserWithoutWhere(us, t, user, topic, is_correct, new_level, day, now) ==
    LET total == user.total_exercises + 1
        correct == user.correct_answers + (IF is_correct THEN 1 ELSE 0)
        su == StreakUpdate(user.last_exercise_date, day)
    IN  [k \in TelegramIds |->
            IF us[k] = NoRow THEN NoRow
            ELSE [us[k] EXCEPT
                   !.total_exercises = total,
                   !.correct_answers = correct,
                   !.accuracy = Accuracy(correct, total),
                   !.weak_topics = JsonDumps(NewWeakTopics(user.weak_topics, topic, is_correct)),
                   !.level = IF new_level # NoLevel THEN new_level ELSE us[k].level,
                   !.streak_days = NewStreak(su[1], user.streak_days, user.last_exercise_date),
                   !.last_exercise_date = su[2],
                   !.last_active = now]]

\* variant: without a new_level the level is computed from the new accuracy and total
UpdateUserRecomputingLevel(us, t, user, topic, is_correct, new_level, day, now) ==
    LET total == user.total_exercises + 1
        correct == user.correct_answers + (IF is_correct THEN 1 ELSE 0)
        su == StreakUpdate(user.last_exercise_date, day)
    IN  IF us[t] = NoRow THEN us
        ELSE [us EXCEPT ![t] =
                [us[t] EXCEPT
                   !.total_exercises = total,
                   !.correct_answers = correct,
                   !.accuracy = Accuracy(correct, total),
                   !.weak_topics = JsonDumps(NewWeakTopics(user.weak_topics, topic, is_correct)),
                   !.level = IF new_level # NoLevel THEN new_level
                             ELSE GetUserLevel(Accuracy(correct, total), total),
                   !.streak_days = NewStreak(su[1], user.streak_days, user.last_exercise_date),
                   !.last_exercise_date = su[2],
                   !.last_active = now]]

\* the two UPDATE users statements: with level when new_level is given, without otherwise
UpdateUser(us, t, user, topic, is_correct, new_level, day, now) ==
    LET total == NewTotal(user)
        correct == NewCorrect(user, is_correct)
        su == StreakUpdate(user.last_exercise_date, day)
        row == [us[t] EXCEPT
                  !.total_exercises = total,
                  !.correct_answers = correct,
                  !.accuracy = Accuracy(correct, total),
                  !.weak_topics = JsonDumps(NewWeakTopics(user.weak_topics, topic, is_correct)),
                  !.streak_days = NewStreak(su[1], user.streak_days, user.last_exercise_date),
                  !.last_exercise_date = su[2],
                  !.last_active = now]
    IN  IF us[t] = NoRow THEN us
        ELSE IF new_level # NoLevel THEN [us EXCEPT ![t] = [row EXCEPT !.level = new_level]]
        ELSE [us EXCEPT ![t] = row]

\* INSERT INTO exercise_history
\* the defaults of record_exercise: difficulty = 0.5, time_spent = 0
DefaultDifficulty == Real(1, 2)
DefaultTimeSpent == Real(0, 1)

\* int(x) of a number: the integer towards zero
ToInt(x) == IF x[1] >= 0 THEN x[1] \div x[2] ELSE -((-x[1]) \div x[2])

\* variant: the row says correct whatever the answer was
InsertHistoryAlwaysCorrect(h, user_db_id, is_correct, difficulty, time_spent) ==
    h (+) SetToBag({[user_id |-> user_db_id,
                     is_correct |-> 1,
                     difficulty |-> difficulty,
                     time_spent |-> ToInt(time_spent)]})

\* float(difficulty) is the number itself
InsertHistory(h, user_db_id, is_correct, difficulty, time_spent) ==
    h (+) SetToBag({[user_id |-> user_db_id,
                     is_correct |-> IF is_correct THEN 1 ELSE 0,
                     difficulty |-> difficulty,
                     time_spent |-> ToInt(time_spent)]})

----------------------------------------------------------------------------
(* record_exercise: the store statements of a call, in order.  An exception  *)
(* at one of them ends the call; "with self._connect() as conn" commits on   *)
(* leaving the block and rolls back on an exception.                          *)

FailPoints == {"get_user", "upsert_user", "reload_user", "insert_history", "update_user", "commit"}

\* users after a call that fails at `stage`: get_or_create_user has committed
\* its own transaction once its INSERT or UPDATE is through
UsersOnFailure(us, t, now, stage) ==
    IF stage \in {"get_user", "upsert_user"} THEN us ELSE GetOrCreateUser(us, t, now)

\* exercise_history after a call that fails: the open transaction is rolled back
HistoryOnFailure(h, stage) == h

\* users after a call that succeeds
UsersOnSuccess(us, t, topic, is_correct, new_level, day, now) ==
    LET created == GetOrCreateUser(us, t, now)
    IN  UpdateUser(created, t, GetUser(created, t), topic, is_correct, new_level, day, now)

\* exercise_history after a call that succeeds
HistoryOnSuccess(h, us, t, is_correct, difficulty, time_spent, now) ==
    InsertHistory(h, GetUser(GetOrCreateUser(us, t, now), t).id, is_correct,
                  difficulty, time_spent)

----------------------------------------------------------------------------
(* State outside the store *)

NoObs == [outcome |-> "none", failed_at |-> "none", tid |-> 0, topic |-> 0,
          is_correct |-> FALSE, new_level |-> NoLevel, day |-> 0, before |-> NoRow]

NoFirst == [day |-> -1, streak |-> 0]

IdleLoc == [tid |-> 0, topic |-> 0, is_correct |-> FALSE, new_level |-> NoLevel,
            user |-> NoRow, day |-> 0]

AllIdle == \A c \in Conns : pc[c] = "idle"

\* no call made yet: the run of misses is empty
NoMiss == [ok |-> TRUE, topics |-> <<>>]

\* no LearningEngine function called yet
NoEngineCall == [fn |-> "none"]

\* the run goes on with a miss on a topic not missed before, and ends with any other call
MissRun(m, t, topic, is_correct) ==
    IF m[t].ok /\ (~is_correct) /\ topic # 0 /\ topic \notin {m[t].topics[i] : i \in 1..Len(m[t].topics)}
    THEN [m EXCEPT ![t].topics = Append(m[t].topics, topic)]
    ELSE [m EXCEPT ![t] = [ok |-> FALSE, topics |-> <<>>]]

\* the first call of a day fixes the streak the later calls of that day are compared with
FirstOfDay(f, t, day, streak) ==
    IF f[t].day = day THEN f ELSE [f EXCEPT ![t] = [day |-> day, streak |-> streak]]

----------------------------------------------------------------------------
(* Calls that do not overlap: one action per call *)

\* total_exercises of the stored row, 0 while there is none
StoredTotal(us, t) == IF us[t] = NoRow THEN 0 ELSE us[t].total_exercises

\* a call that runs to its end
RecordExerciseWith(t, topic, is_correct, difficulty, time_spent, new_level, max_total) ==
    /\ AllIdle
    /\ StoredTotal(users, t) < max_total
    /\ users' = UsersOnSuccess(users, t, topic, is_correct, new_level, today, today)
    /\ history' = HistoryOnSuccess(history, users, t, is_correct, difficulty, time_spent, today)
    /\ first_of_day' = FirstOfDay(first_of_day, t, today, users'[t].streak_days)
    /\ miss_run' = MissRun(miss_run, t, topic, is_correct)
    /\ obs' = [outcome |-> "ok", failed_at |-> "none", tid |-> t, topic |-> topic,
               is_correct |-> is_correct, new_level |-> new_level,
               day |-> today, before |-> users[t]]
    /\ UNCHANGED <<today, engine, pc, loc, lock,
                 conversation_history, lists, ask, asked>>

\* such a call with the default difficulty and time_spent
RecordExercise(t, topic, is_correct, new_level, max_total) ==
    RecordExerciseWith(t, topic, is_correct, DefaultDifficulty, DefaultTimeSpent, new_level,
                       max_total)

\* a call that the store fails at one of its statements, whatever its other arguments
RecordExerciseFails(t, fail_at, max_total) ==
    /\ AllIdle
    /\ StoredTotal(users, t) < max_total
    /\ users' = UsersOnFailure(users, t, today, fail_at)
    /\ history' = HistoryOnFailure(history, fail_at)
    /\ obs' = [NoObs EXCEPT !.outcome = "failed", !.failed_at = fail_at, !.tid = t,
                            !.day = today, !.before = users[t]]
    /\ UNCHANGED <<today, first_of_day, miss_run, engine, pc, loc, lock,
                 conversation_history, lists, ask, asked>>

\* the other operations of the store, called between record_exercise calls
GetUserOp(t) ==
    /\ AllIdle
    /\ obs' = [NoObs EXCEPT !.outcome = "get_user", !.tid = t, !.day = today,
                            !.before = users[t]]
    /\ UNCHANGED <<users, history, today, first_of_day, miss_run, engine, pc, loc, lock,
                 conversation_history, lists, ask, asked>>

GetOrCreateUserOp(t) ==
    /\ AllIdle
    /\ users' = GetOrCreateUser(users, t, today)
    /\ obs' = [NoObs EXCEPT !.outcome = "get_or_create_user", !.tid = t, !.day = today,
                            !.before = users[t]]
    /\ UNCHANGED <<history, today, first_of_day, miss_run, engine, pc, loc, lock,
                 conversation_history, lists, ask, asked>>

SetUserLevelOp(t, level) ==
    /\ AllIdle
    /\ users' = SetUserLevel(users, t, level)
    /\ obs' = [NoObs EXCEPT !.outcome = "set_user_level", !.tid = t, !.day = today,
                            !.new_level = level, !.before = users[t]]
    /\ UNCHANGED <<history, today, first_of_day, miss_run, engine, pc, loc, lock,
                 conversation_history, lists, ask, asked>>

GetUserStatsOp(t) ==
    /\ AllIdle
    /\ obs' = [NoObs EXCEPT !.outcome = "get_user_stats", !.tid = t, !.day = today,
                            !.before = users[t]]
    /\ UNCHANGED <<users, history, today, first_of_day, miss_run, engine, pc, loc, lock,
                 conversation_history, lists, ask, asked>>

\* a call of LearningEngine.get_user_level with accuracy = correct / total
GetUserLevelCall(correct, total) ==
    /\ engine' = [fn |-> "get_user_level",
                  accuracy |-> Accuracy(correct, total),
                  total_exercises |-> total,
                  result |-> GetUserLevel(Accuracy(correct, total), total)]
    /\ UNCHANGED <<users, history, today, obs, first_of_day, miss_run, pc, loc, lock,
                 conversation_history, lists, ask, asked>>

\* a call of LearningEngine.calculate_difficulty with the stats of a user who
\* answered correct of total exercises
CalculateDifficultyCall(correct, total) ==
    LET user_stats == [accuracy |-> Accuracy(correct, total), total_exercises |-> total]
    IN  /\ engine' = [fn |-> "calculate_difficulty",
                      user_stats |-> user_stats,
                      result |-> CalculateDifficulty(user_stats)]
        /\ UNCHANGED <<users, history, today, obs, first_of_day, miss_run, pc, loc, lock,
                 conversation_history, lists, ask, asked>>

\* a call of LearningEngine.recommend_topics
RecommendTopicsCall(user_level, weak_topics) ==
    /\ engine' = [fn |-> "recommend_topics",
                  user_level |-> user_level,
                  weak_topics |-> weak_topics,
                  result |-> RecommendTopics(user_level, weak_topics)]
    /\ UNCHANGED <<users, history, today, obs, first_of_day, miss_run, pc, loc, lock,
                 conversation_history, lists, ask, asked>>

\* a call of LearningEngine.evaluate_answer, and its caller taking the result
EvaluateAnswerCall(user_answer, correct_answer) ==
    /\ engine = NoEngineCall
    /\ \E feedback \in GenerateFeedback(EvaluateAnswer(user_answer, correct_answer).is_correct,
                                        EvaluateAnswer(user_answer, correct_answer).partial_match) :
          engine' = [fn |-> "evaluate_answer",
                     user_answer |-> user_answer,
                     correct_answer |-> correct_answer,
                     result |-> EvaluateAnswer(user_answer, correct_answer),
                     feedback |-> feedback]
    /\ UNCHANGED <<users, history, today, obs, first_of_day, miss_run, pc, loc, lock,
                 conversation_history, lists, ask, asked>>

EvaluateAnswerReturn ==
    /\ engine # NoEngineCall
    /\ engine' = NoEngineCall
    /\ UNCHANGED <<users, history, today, obs, first_of_day, miss_run, pc, loc, lock,
                 conversation_history, lists, ask, asked>>

\* the clock of the machine is set, forwards or backwards, between calls
SetClock(max_day) ==
    /\ AllIdle
    /\ \E d \in 0..max_day : d # today /\ today' = d
    /\ UNCHANGED <<users, history, obs, first_of_day, miss_run, engine, pc, loc, lock,
                 conversation_history, lists, ask, asked>>

\* ask_question up to its await: _get_conversation stores a list for a user
\* who has none; a list of more than 10 messages is copied, trimmed, into a new
\* list, a shorter one is used as it is; the question is appended to that list
AskQuestion(c, u, question) ==
    LET known == conversation_history[u] # 0
        stored == IF known THEN conversation_history[u] ELSE NewList(conversation_history, ask)
        lists1 == IF known THEN lists ELSE [lists EXCEPT ![stored] = <<DeveloperPrompt>>]
        hist1 == [conversation_history EXCEPT ![u] = stored]
        long == Len(lists1[stored]) > HistoryLimit
        conversation == IF long THEN NewList(hist1, ask) ELSE stored
        messages == IF long THEN Trimmed(lists1[stored]) ELSE lists1[stored]
    IN  /\ ask[c].pc = "idle"
        /\ asked < MaxAsked
        /\ asked' = asked + 1
        /\ conversation_history' = hist1
        /\ lists' = [lists1 EXCEPT ![conversation] = Append(messages, UserMessage(question))]
        /\ ask' = [ask EXCEPT ![c] = [pc |-> "await", user_id |-> u,
                                      conversation |-> conversation]]
        /\ UNCHANGED <<users, history, today, obs, first_of_day, miss_run, engine, pc, loc, lock>>

\* _call_gigachat_api returned an answer: it is appended and the list stored
AskAnswered(c, answer) ==
    /\ ask[c].pc = "await"
    /\ conversation_history' =
           [conversation_history EXCEPT ![ask[c].user_id] = ask[c].conversation]
    /\ ask' = [ask EXCEPT ![c] = IdleAsk]
    /\ lists' = Collect([lists EXCEPT ![ask[c].conversation] = Append(@, AssistantMessage(answer))],
                        conversation_history', ask')
    /\ UNCHANGED <<users, history, today, obs, first_of_day, miss_run, engine, pc, loc, lock,
                   asked>>

\* _call_gigachat_api returned None or raised: nothing more is done
AskFailed(c) ==
    /\ ask[c].pc = "await"
    /\ ask' = [ask EXCEPT ![c] = IdleAsk]
    /\ lists' = Collect(lists, conversation_history, ask')
    /\ UNCHANGED <<users, history, today, obs, first_of_day, miss_run, engine, pc, loc, lock,
                   conversation_history, asked>>

\* clear_conversation, of a user with a conversation; it does nothing for others
ClearConversation(u) ==
    /\ conversation_history[u] # 0
    /\ conversation_history' =
           [conversation_history EXCEPT ![u] = NewList(conversation_history, ask)]
    /\ lists' = Collect([lists EXCEPT ![conversation_history'[u]] = <<DeveloperPrompt>>],
                        conversation_history', ask)
    /\ UNCHANGED <<users, history, today, obs, first_of_day, miss_run, engine, pc, loc, lock,
                   ask, asked>>

\* the calendar moves on between calls
Tick(max_day) ==
    /\ AllIdle
    /\ \E d \in (today + 1)..max_day : today' = d
    /\ UNCHANGED <<users, history, obs, first_of_day, miss_run, engine, pc, loc, lock,
                 conversation_history, lists, ask, asked>>

----------------------------------------------------------------------------
(* Calls that overlap: each connection runs the statements of its call one   *)
(* at a time.  A statement that writes waits for SQLite's write lock, which  *)
(* the open transaction of record_exercise holds from its INSERT to its      *)
(* commit; what a transaction wrote is in the store once it commits.         *)

InFlight == {c \in Conns : pc[c] # "idle"}

\* record_exercise is entered
Call(c, t, topic, is_correct, new_level) ==
    /\ pc[c] = "idle"
    /\ BagCardinality(history) + Cardinality(InFlight) < MaxConcCalls
    /\ pc' = [pc EXCEPT ![c] = "get_user"]
    /\ loc' = [loc EXCEPT ![c] = [IdleLoc EXCEPT !.tid = t, !.topic = topic,
                                     !.is_correct = is_correct, !.new_level = new_level]]
    /\ UNCHANGED <<users, history, today, obs, first_of_day, miss_run, engine, lock,
                 conversation_history, lists, ask, asked>>

\* get_or_create_user: user = self.get_user(telegram_id)
StepGetUser(c) ==
    /\ pc[c] = "get_user"
    /\ loc' = [loc EXCEPT ![c].user = GetUser(users, loc[c].tid)]
    /\ pc' = [pc EXCEPT ![c] = "upsert_user"]
    /\ UNCHANGED <<users, history, today, obs, first_of_day, miss_run, engine, lock,
                 conversation_history, lists, ask, asked>>

\* get_or_create_user: the UPDATE of a user found, the INSERT of one not found;
\* telegram_id is UNIQUE, so the INSERT of a row that exists by now raises
StepUpsertUser(c) ==
    /\ pc[c] = "upsert_user"
    /\ lock = 0
    /\ IF loc[c].user # NoRow
       THEN /\ users' = TouchUser(users, loc[c].tid, today)
            /\ pc' = [pc EXCEPT ![c] = "reload_user"]
            /\ UNCHANGED loc
       ELSE IF users[loc[c].tid] = NoRow
       THEN /\ users' = InsertUser(users, loc[c].tid, today)
            /\ pc' = [pc EXCEPT ![c] = "reload_user"]
            /\ UNCHANGED loc
       ELSE /\ pc' = [pc EXCEPT ![c] = "idle"]
            /\ loc' = [loc EXCEPT ![c] = IdleLoc]
            /\ UNCHANGED users
    /\ UNCHANGED <<history, today, obs, first_of_day, miss_run, engine, lock,
                 conversation_history, lists, ask, asked>>

\* get_or_create_user: return self.get_user(telegram_id); then the locals of
\* record_exercise are computed from this row and from date.today()
StepReloadUser(c) ==
    /\ pc[c] = "reload_user"
    /\ loc' = [loc EXCEPT ![c].user = GetUser(users, loc[c].tid), ![c].day = today]
    /\ pc' = [pc EXCEPT ![c] = "insert_history"]
    /\ UNCHANGED <<users, history, today, obs, first_of_day, miss_run, engine, lock,
                 conversation_history, lists, ask, asked>>

\* INSERT INTO exercise_history opens the transaction
StepInsertHistory(c) ==
    /\ pc[c] = "insert_history"
    /\ lock = 0
    /\ lock' = c
    /\ pc' = [pc EXCEPT ![c] = "update_user"]
    /\ UNCHANGED <<users, history, today, obs, first_of_day, miss_run, engine, loc,
                 conversation_history, lists, ask, asked>>

\* UPDATE users, in the open transaction
StepUpdateUser(c) ==
    /\ pc[c] = "update_user"
    /\ lock = c
    /\ pc' = [pc EXCEPT ![c] = "commit"]
    /\ UNCHANGED <<users, history, today, obs, first_of_day, miss_run, engine, loc, lock,
                 conversation_history, lists, ask, asked>>

\* conn.commit(): both statements reach the store
StepCommit(c) ==
    /\ pc[c] = "commit"
    /\ lock = c
    /\ users' = UpdateUser(users, loc[c].tid, loc[c].user, loc[c].topic, loc[c].is_correct,
                           loc[c].new_level, loc[c].day, today)
    /\ history' = InsertHistory(history, loc[c].user.id, loc[c].is_correct,
                                DefaultDifficulty, DefaultTimeSpent)
    /\ lock' = 0
    /\ pc' = [pc EXCEPT ![c] = "idle"]
    /\ loc' = [loc EXCEPT ![c] = IdleLoc]
    /\ UNCHANGED <<today, obs, first_of_day, miss_run, engine,
                 conversation_history, lists, ask, asked>>

\* the statement a connection is at raises: an open transaction is rolled back
StepFails(c) ==
    /\ pc[c] \in FailPoints
    /\ lock' = IF lock = c THEN 0 ELSE lock
    /\ pc' = [pc EXCEPT ![c] = "idle"]
    /\ loc' = [loc EXCEPT ![c] = IdleLoc]
    /\ UNCHANGED <<users, history, today, obs, first_of_day, miss_run, engine,
                 conversation_history, lists, ask, asked>>

----------------------------------------------------------------------------
(* Initial states *)

InitRest ==
    /\ obs = NoObs
    /\ first_of_day = [t \in TelegramIds |-> NoFirst]
    /\ miss_run = [t \in TelegramIds |-> NoMiss]
    /\ engine = NoEngineCall
    /\ pc = [c \in Conns |-> "idle"]
    /\ loc = [c \in Conns |-> IdleLoc]
    /\ lock = 0
    /\ conversation_history = [u \in ChatIds |-> 0]
    /\ lists = [i \in ListIds |-> <<>>]
    /\ ask = [c \in Coroutines |-> IdleAsk]
    /\ asked = 0

\* a store _init_database has just created
Init ==
    /\ users = [t \in TelegramIds |-> NoRow]
    /\ history = EmptyBag
    /\ today = 0
    /\ InitRest

StoredDates == {NullDate, EmptyDate, BadDate} \cup {IsoFormat(d) : d \in 0..MaxDay}

\* the row of user 1 in a store that exists already: any streak, any text as its date
StoredRow(streak, date) ==
    [id |-> 1, level |-> "beginner", total_exercises |-> streak, correct_answers |-> streak,
     accuracy |-> Accuracy(streak, streak), weak_topics |-> JsonDumps(<<>>),
     streak_days |-> streak, last_exercise_date |-> date, last_active |-> 0]

InitStored ==
    /\ \E s \in 0..MaxStoredStreak, d \in StoredDates :
          users = [t \in TelegramIds |-> IF t = 1 THEN StoredRow(s, d) ELSE NoRow]
    /\ history = EmptyBag
    /\ today = 1
    /\ InitRest

----------------------------------------------------------------------------
(* Specifications *)

SeqIds == {1}
NewLevels == {NoLevel, "beginner", "advanced"}

NextSeq ==
    \/ \E t \in SeqIds, topic \in 0..NumTopics, is_correct \in BOOLEAN, new_level \in NewLevels :
          RecordExercise(t, topic, is_correct, new_level, MaxTotal)
    \/ \E t \in SeqIds, fail_at \in FailPoints : RecordExerciseFails(t, fail_at, MaxTotal)
    \/ Tick(MaxDay)

\* calls one after the other on a new store
Spec == Init /\ [][NextSeq]_vars

NextStored ==
    \/ \E t \in SeqIds, topic \in 0..NumTopics, is_correct \in BOOLEAN, new_level \in NewLevels :
          RecordExercise(t, topic, is_correct, new_level, MaxStoredStreak + 2)
    \/ \E t \in SeqIds, fail_at \in FailPoints :
          RecordExerciseFails(t, fail_at, MaxStoredStreak + 2)
    \/ Tick(MaxDay)

\* calls one after the other on a store that holds a row already
SpecStored == InitStored /\ [][NextStored]_vars

ConcLevels == {NoLevel, "advanced"}

NextConc ==
    \/ \E c \in Conns, t \in TelegramIds, topic \in 0..NumTopics, is_correct \in BOOLEAN,
          new_level \in ConcLevels : Call(c, t, topic, is_correct, new_level)
    \/ \E c \in Conns : StepGetUser(c)
    \/ \E c \in Conns : StepUpsertUser(c)
    \/ \E c \in Conns : StepReloadUser(c)
    \/ \E c \in Conns : StepInsertHistory(c)
    \/ \E c \in Conns : StepUpdateUser(c)
    \/ \E c \in Conns : StepCommit(c)
    \/ \E c \in Conns : StepFails(c)
    \/ Tick(MaxConcDay)

\* calls of two connections, interleaved statement by statement, on a new store
SpecConc == Init /\ [][NextConc]_vars

Levels == {"beginner", "intermediate", "advanced"}

NextOps ==
    \/ \E t \in SeqIds, topic \in 0..NumTopics, is_correct \in BOOLEAN, new_level \in NewLevels :
          RecordExercise(t, topic, is_correct, new_level, MaxTotal)
    \/ \E t \in SeqIds : GetUserOp(t)
    \/ \E t \in SeqIds : GetOrCreateUserOp(t)
    \/ \E t \in SeqIds, level \in Levels : SetUserLevelOp(t, level)
    \/ \E t \in SeqIds : GetUserStatsOp(t)
    \/ Tick(MaxDay)

\* every operation of the store, one after the other, on a new store
SpecOps == Init /\ [][NextOps]_vars

NextLevel ==
    \E total \in 0..MaxLevelTotal, correct \in 0..MaxLevelTotal :
        correct <= total /\ GetUserLevelCall(correct, total)

\* calls of get_user_level, one after the other
SpecLevel == Init /\ [][NextLevel]_vars

NextDifficulty ==
    \E total \in 0..MaxDifficultyTotal, correct \in 0..MaxDifficultyTotal :
        correct <= total /\ CalculateDifficultyCall(correct, total)

\* calls of calculate_difficulty, one after the other
SpecDifficulty == Init /\ [][NextDifficulty]_vars

\* the topic names a caller passes as weak_topics, and the levels: the three of
\* self.topics and one that is not a key of it
WeakNames == {"Past Simple", "Articles (a/an/the)", "Word order"}
WeakLists == UNION {[1..n -> WeakNames] : n \in 0..MaxWeakLen}
CallerLevels == Levels \cup {"expert"}

NextRecommend ==
    \E user_level \in CallerLevels, weak_topics \in WeakLists :
        RecommendTopicsCall(user_level, weak_topics)

\* calls of recommend_topics, one after the other
SpecRecommend == Init /\ [][NextRecommend]_vars

\* the answers of the calls: every str of a few characters out of a letter, an
\* upper-case letter, a space, a punctuation mark and an apostrophe, and None
Chars == {"a", "A", " ", "!", "'"}
Strs(max_len) == UNION {[1..n -> Chars] : n \in 0..max_len}

NextAnswer ==
    \/ /\ engine = NoEngineCall
       /\ \E user_answer \in Strs(MaxUserLen) \cup {None},
             correct_answer \in Strs(MaxCorrectLen) \cup {None} :
             EvaluateAnswerCall(user_answer, correct_answer)
    \/ EvaluateAnswerReturn

\* calls of evaluate_answer, one after the other
SpecAnswer == Init /\ [][NextAnswer]_vars

\* answers made of one-letter words with one space between them: the user's
\* words in any order, with repetitions; the expected answer is the first n
\* words, and its first word once more when again is true
WordNames == <<"a", "b", "c", "d", "e", "f">>
RECURSIVE Join(_)
Join(words) ==
    IF words = <<>> THEN <<>>
    ELSE IF Len(words) = 1 THEN <<words[1]>>
    ELSE <<words[1], " ">> \o Join(Tail(words))
UserWordLists == UNION {[1..n -> {WordNames[i] : i \in 1..Len(WordNames)}] : n \in 0..MaxUserWords}
ExpectedWords(n, again) ==
    IF n = 0 THEN <<>>
    ELSE SubSeq(WordNames, 1, n) \o (IF again THEN <<WordNames[1]>> ELSE <<>>)

NextWords ==
    \/ /\ engine = NoEngineCall
       /\ \E user_words \in UserWordLists, n \in 0..MaxExpectedWords, again \in BOOLEAN :
             /\ n <= Len(WordNames)
             /\ EvaluateAnswerCall(Join(user_words), Join(ExpectedWords(n, again)))
    \/ EvaluateAnswerReturn

\* calls of evaluate_answer with answers of several words
SpecWords == Init /\ [][NextWords]_vars

\* the difficulty and time_spent a caller may pass: in range, on the edge of
\* it, and out of it
Difficulties == {Real(-1, 2), Real(0, 1), Real(1, 2), Real(1, 1), Real(3, 2)}
TimesSpent == {Real(-1, 1), Real(-1, 2), Real(0, 1), Real(3, 2)}

NextArgs ==
    \/ \E t \in SeqIds, is_correct \in BOOLEAN, difficulty \in Difficulties,
          time_spent \in TimesSpent :
          RecordExerciseWith(t, 0, is_correct, difficulty, time_spent, NoLevel, MaxTotal)
    \/ Tick(MaxConcDay)

\* record_exercise calls with any difficulty and time_spent, on a new store
SpecArgs == Init /\ [][NextArgs]_vars

NextClock ==
    \/ \E t \in SeqIds, is_correct \in BOOLEAN, new_level \in ConcLevels :
          RecordExercise(t, 0, is_correct, new_level, MaxTotal)
    \/ \E t \in SeqIds, fail_at \in FailPoints : RecordExerciseFails(t, fail_at, MaxTotal)
    \/ SetClock(MaxDay)

\* calls one after the other on a new store, under a clock that moves in any way
SpecClock == Init /\ [][NextClock]_vars

Questions == {"q"}
Answers == {"a"}

NextChat ==
    \/ \E c \in Coroutines, u \in ChatIds, question \in Questions :
          /\ \A d \in Coroutines : d < c => ask[d].pc # "idle"
          /\ AskQuestion(c, u, question)
    \/ \E c \in Coroutines, answer \in Answers : AskAnswered(c, answer)
    \/ \E c \in Coroutines : AskFailed(c)
    \/ \E u \in ChatIds : ClearConversation(u)

\* ask_question and clear_conversation calls of one OpenAIAPI object; a call
\* may start while another awaits its answer, and takes the first coroutine
\* that is free
SpecChat == Init /\ [][NextChat]_vars

NextApart ==
    \/ \E c \in Conns, topic \in 0..NumTopics, is_correct \in BOOLEAN, new_level \in ConcLevels :
          Call(c, c, topic, is_correct, new_level)
    \/ \E c \in Conns : StepGetUser(c)
    \/ \E c \in Conns : StepUpsertUser(c)
    \/ \E c \in Conns : StepReloadUser(c)
    \/ \E c \in Conns : StepInsertHistory(c)
    \/ \E c \in Conns : StepUpdateUser(c)
    \/ \E c \in Conns : StepCommit(c)
    \/ \E c \in Conns : StepFails(c)

\* interleaved calls of two connections on one day, each for a user of its own
SpecApart == Init /\ [][NextApart]_vars

NextTopics ==
    \E t \in SeqIds, topic \in 0..NumWideTopics, is_correct \in BOOLEAN :
        RecordExercise(t, topic, is_correct, NoLevel, MaxWideTotal)

\* calls one after the other on one day, over enough topics to fill weak_topics
SpecTopics == Init /\ [][NextTopics]_vars

----------------------------------------------------------------------------
(* What the claims read *)

\* the rows of exercise_history of one user, and those of them marked correct
\* SELECT COUNT(*) FROM exercise_history over the rows of a set
RECURSIVE CountRows(_, _)
CountRows(h, rows) ==
    IF rows = {} THEN 0
    ELSE LET row == CHOOSE r \in rows : TRUE
         IN  CopiesIn(row, h) + CountRows(h, rows \ {row})
RowsOfId(h, uid) == CountRows(h, {r \in BagToSet(h) : r.user_id = uid})
CorrectRowsOfId(h, uid) ==
    CountRows(h, {r \in BagToSet(h) : r.user_id = uid /\ r.is_correct = 1})

HistoryRows(uid) == RowsOfId(history, uid)
HistoryCorrect(uid) == CorrectRowsOfId(history, uid)

\* the last call made alone ran to its end / was failed by the store
CallDone == obs.outcome = "ok"
CallFailed == obs.outcome = "failed"

\* the row the last call found, and the row it left
Before == obs.before
After == users[obs.tid]
HadRow == obs.before # NoRow

BeforeTotal == IF HadRow THEN Before.total_exercises ELSE 0
BeforeCorrect == IF HadRow THEN Before.correct_answers ELSE 0
AfterWeak == JsonLoads(After.weak_topics)

\* the last call found no row, or a row with the values of a new one
FoundNewUser ==
    \/ ~HadRow
    \/ /\ HadRow
       /\ Before.total_exercises = 0
       /\ Before.correct_answers = 0
       /\ Before.last_exercise_date = NullDate

NoDuplicates(list) == \A i, j \in 1..Len(list) : list[i] = list[j] => i = j

----------------------------------------------------------------------------
(* C1..C10 *)

\* C1: interleaved record_exercise calls for one user lose no update: once no
\* call is in flight, total_exercises of every user is the number of calls that
\* committed for that user (one exercise_history row each), and correct_answers
\* the number of them that were correct.  (SpecConc)
C1_SameUserCallsSerialized ==
    AllIdle =>
        \A t \in TelegramIds :
            users[t] # NoRow =>
                /\ users[t].total_exercises = HistoryRows(users[t].id)
                /\ users[t].correct_answers = HistoryCorrect(users[t].id)

\* C2: record_exercise is all-or-nothing: a call the store fails leaves the
\* user's row as it was before the call (no new row, no changed column, no
\* history row), and a call that ends has written the history row, the counters
\* and the streak and date together.  (Spec)
C2_AllOrNothing ==
    /\ CallFailed =>
          /\ After = Before
          /\ HadRow => HistoryRows(Before.id) = Before.total_exercises
    /\ CallDone =>
          /\ After # NoRow
          /\ After.total_exercises = BeforeTotal + 1
          /\ HistoryRows(After.id) = After.total_exercises
          /\ After.last_exercise_date = IsoFormat(obs.day)
          /\ After.last_active = obs.day

\* C3: a stored last_exercise_date that does not parse is treated as no prior
\* date: the call ends with streak_days = 1, whatever it was, and
\* last_exercise_date = today.  (SpecStored)
C3_UnparsableDateResetsStreak ==
    (CallDone /\ HadRow /\ Before.last_exercise_date = BadDate) =>
        /\ After.streak_days = 1
        /\ After.last_exercise_date = IsoFormat(obs.day)

\* C4: after every call that follows the first call of a day on that day,
\* streak_days is what it was after that first call, and last_exercise_date
\* is that day.  (Spec)
C4_SameDayKeepsStreak ==
    \A t \in TelegramIds :
        first_of_day[t] # NoFirst =>
            /\ users[t].streak_days = first_of_day[t].streak
            /\ users[t].last_exercise_date = IsoFormat(first_of_day[t].day)

\* a second call on one day, made with a streak of 2
C4_Witness ==
    /\ CallDone /\ HadRow
    /\ Before.last_exercise_date = IsoFormat(obs.day)
    /\ Before.streak_days = 2
    /\ After.streak_days = 2

\* C5: a call made with last_exercise_date of the day before today ends with
\* streak_days one more than before and last_exercise_date = today.  (SpecStored)
C5_YesterdayAddsOne ==
    (CallDone /\ HadRow /\ Before.last_exercise_date = IsoFormat(obs.day - 1)) =>
        /\ After.streak_days = Before.streak_days + 1
        /\ After.last_exercise_date = IsoFormat(obs.day)

\* a call on the day after the last one, taking the streak from 2 to 3
C5_Witness ==
    /\ CallDone /\ HadRow
    /\ Before.last_exercise_date = IsoFormat(obs.day - 1)
    /\ Before.streak_days = 2
    /\ After.streak_days = 3

\* C6: a call made with a last_exercise_date that is a day other than today
\* and yesterday (two or more days back, or ahead of today) ends with
\* streak_days = 1 and last_exercise_date = today.  (SpecStored)
C6_OtherDateResetsStreak ==
    (/\ CallDone /\ HadRow
     /\ Before.last_exercise_date.kind = "iso"
     /\ Before.last_exercise_date.day \notin {obs.day, obs.day - 1}) =>
        /\ After.streak_days = 1
        /\ After.last_exercise_date = IsoFormat(obs.day)

\* a call made with a date ahead of today and a streak of 2
C6_Witness ==
    /\ CallDone /\ HadRow
    /\ Before.last_exercise_date.kind = "iso"
    /\ Before.last_exercise_date.day > obs.day
    /\ Before.streak_days = 2
    /\ After.streak_days = 1

\* a call made with a date two or more days back and a streak of 2
C6_WitnessGap ==
    /\ CallDone /\ HadRow
    /\ Before.last_exercise_date.kind = "iso"
    /\ Before.last_exercise_date.day < obs.day - 1
    /\ Before.streak_days = 2
    /\ After.streak_days = 1

\* C7, as claimed: the first call for a new user, with a correct answer, leaves
\* total 1, correct 1, accuracy 1, streak 1, no weak topic, today's date and
\* level beginner.  (Spec)
C7_FirstCorrectAnswer_Claimed ==
    (CallDone /\ FoundNewUser /\ obs.is_correct) =>
        /\ After.total_exercises = 1
        /\ After.correct_answers = 1
        /\ After.accuracy = <<1, 1>>
        /\ After.streak_days = 1
        /\ AfterWeak = <<>>
        /\ After.last_exercise_date = IsoFormat(obs.day)
        /\ After.level = "beginner"

\* C7, amended: the same, with level = new_level when the call gives one and
\* beginner when it gives none.  (Spec)
C7_FirstCorrectAnswer ==
    (CallDone /\ FoundNewUser /\ obs.is_correct) =>
        /\ After.total_exercises = 1
        /\ After.correct_answers = 1
        /\ After.accuracy = <<1, 1>>
        /\ After.streak_days = 1
        /\ AfterWeak = <<>>
        /\ After.last_exercise_date = IsoFormat(obs.day)
        /\ After.level = IF obs.new_level # NoLevel THEN obs.new_level ELSE "beginner"

\* a first correct answer of a user without a row, no level given
C7_Witness ==
    /\ CallDone /\ ~HadRow /\ obs.is_correct /\ obs.new_level = NoLevel
    /\ After.total_exercises = 1

\* C8: from a new user on, 0 <= correct_answers <= total_exercises, and
\* accuracy is correct_answers / total_exercises when total_exercises > 0 and
\* 0 when it is 0.  (Spec)
C8_CountersAndAccuracy ==
    \A t \in TelegramIds :
        users[t] # NoRow =>
            /\ 0 <= users[t].correct_answers
            /\ users[t].correct_answers <= users[t].total_exercises
            /\ users[t].accuracy[2] > 0
            /\ IF users[t].total_exercises > 0
               THEN users[t].accuracy[1] * users[t].total_exercises
                        = users[t].correct_answers * users[t].accuracy[2]
               ELSE users[t].accuracy[1] = 0

\* two correct answers out of three
C8_Witness ==
    \E t \in TelegramIds :
        /\ users[t] # NoRow
        /\ users[t].total_exercises = 3
        /\ users[t].correct_answers = 2
        /\ users[t].accuracy = <<2, 3>>

\* C9: a call that ends adds exactly 1 to total_exercises, and 1 to
\* correct_answers if is_correct and 0 otherwise, in every streak case.  (Spec)
C9_AggregateUpdate ==
    CallDone =>
        /\ After.total_exercises = BeforeTotal + 1
        /\ After.correct_answers = BeforeCorrect + (IF obs.is_correct THEN 1 ELSE 0)

\* a wrong answer after a gap: the streak is reset, the counters move on
C9_Witness ==
    /\ CallDone /\ HadRow /\ ~obs.is_correct
    /\ Before.last_exercise_date.kind = "iso"
    /\ Before.last_exercise_date.day < obs.day - 1
    /\ Before.streak_days = 2
    /\ After.streak_days = 1
    /\ After.total_exercises = 3
    /\ After.correct_answers = Before.correct_answers

\* C10: from a new user on, weak_topics holds no topic twice and at most 5
\* topics.  (SpecTopics)
C10_WeakTopicsBounded ==
    \A t \in TelegramIds :
        users[t] # NoRow =>
            /\ NoDuplicates(JsonLoads(users[t].weak_topics))
            /\ Len(JsonLoads(users[t].weak_topics)) <= 5

\* a sixth topic missed with five in the list: the oldest has gone
C10_Witness ==
    /\ CallDone /\ HadRow
    /\ Len(JsonLoads(Before.weak_topics)) = 5
    /\ Len(AfterWeak) = 5
    /\ AfterWeak # JsonLoads(Before.weak_topics)

----------------------------------------------------------------------------
(* C11..C20 *)

\* C11: from an empty weak_topics, after n >= 5 calls in a row that each miss
\* a topic not missed before, weak_topics is the last five of these topics in
\* the order they were missed; after 6 the first one is gone.  (SpecTopics)
C11_LastFiveMisses ==
    \A t \in TelegramIds :
        (miss_run[t].ok /\ Len(miss_run[t].topics) >= 5) =>
            /\ users[t] # NoRow
            /\ JsonLoads(users[t].weak_topics)
                   = SubSeq(miss_run[t].topics, Len(miss_run[t].topics) - 4, Len(miss_run[t].topics))

\* six topics missed in a row: five are listed, the first is not
C11_Witness ==
    \E t \in TelegramIds :
        /\ miss_run[t].ok
        /\ Len(miss_run[t].topics) = 6
        /\ Len(JsonLoads(users[t].weak_topics)) = 5
        /\ ~Contains(JsonLoads(users[t].weak_topics), miss_run[t].topics[1])

\* the level of the row the last call found; a row it had to create has the column default
BeforeLevel == IF HadRow THEN Before.level ELSE "beginner"

\* C12: record_exercise sets level to new_level when the call gives one and
\* leaves level as it was when it gives none; it does not compute a level from
\* the new accuracy and total.  (Spec)
C12_LevelOnlyFromCaller ==
    CallDone =>
        After.level = IF obs.new_level # NoLevel THEN obs.new_level ELSE BeforeLevel

\* a call without new_level on a row of level advanced with 2 exercises:
\* the level stays, though get_user_level would give beginner
C12_Witness ==
    /\ CallDone /\ HadRow
    /\ obs.new_level = NoLevel
    /\ Before.level = "advanced"
    /\ After.level = "advanced"
    /\ After.total_exercises = 2
    /\ GetUserLevel(After.accuracy, After.total_exercises) = "beginner"

\* the user a connection's call is for, over a step of that connection
CallTid(c) == IF pc[c] = "idle" THEN loc'[c].tid ELSE loc[c].tid

\* the rows of exercise_history of the user with this telegram_id
RowsOf(us, h, t) ==
    IF us[t] = NoRow THEN 0 ELSE RowsOfId(h, us[t].id)
CorrectRowsOf(us, h, t) ==
    IF us[t] = NoRow THEN 0 ELSE CorrectRowsOfId(h, us[t].id)

\* C13: a step of a record_exercise call for one user leaves the row and the
\* exercise_history rows of every other user as they are, at every point of
\* every interleaving; and each user's counters are those of that user's own
\* committed calls.  (SpecApart)
C13_OtherUsersUntouched ==
    /\ [][\A c \in Conns :
            pc'[c] # pc[c] =>
                \A t \in TelegramIds \ {CallTid(c)} :
                    /\ users'[t] = users[t]
                    /\ RowsOf(users', history', t) = RowsOf(users, history, t)]_vars
    /\ [](\A t \in TelegramIds :
            users[t] # NoRow =>
                /\ users[t].total_exercises = RowsOf(users, history, t)
                /\ users[t].correct_answers = CorrectRowsOf(users, history, t))

\* calls for both users are in flight: the one for user 2 is about to commit,
\* the one for user 1 waits to open its transaction
C13_Witness ==
    /\ pc[1] = "insert_history" /\ loc[1].tid = 1
    /\ pc[2] = "commit" /\ loc[2].tid = 2
    /\ users[1] # NoRow /\ users[2] # NoRow

\* the UserProgress fields of a row, and the ones other than level
Progress(row) ==
    <<row.total_exercises, row.correct_answers, row.accuracy, row.level,
      row.weak_topics, row.streak_days, row.last_exercise_date>>
ProgressButLevel(row) ==
    <<row.total_exercises, row.correct_answers, row.accuracy,
      row.weak_topics, row.streak_days, row.last_exercise_date>>

\* C14, as claimed: once a user has a row, get_user, get_or_create_user,
\* set_user_level and get_user_stats change none of total_exercises,
\* correct_answers, accuracy, level, weak_topics, streak_days and
\* last_exercise_date.  (SpecOps)
C14_OnlyRecordExerciseWrites_Claimed ==
    (HadRow /\ obs.outcome \in {"get_user", "get_or_create_user", "set_user_level", "get_user_stats"})
        => Progress(After) = Progress(Before)

\* C14, amended: get_user, get_or_create_user and get_user_stats change none of
\* these fields; set_user_level changes level, to the level it is given, and
\* none of the others.  (SpecOps)
C14_OnlyRecordExerciseWrites ==
    /\ (HadRow /\ obs.outcome \in {"get_user", "get_or_create_user", "get_user_stats"})
          => Progress(After) = Progress(Before)
    /\ (HadRow /\ obs.outcome = "set_user_level")
          => /\ ProgressButLevel(After) = ProgressButLevel(Before)
             /\ After.level = obs.new_level

\* get_or_create_user on a later day, for a user with exercises, a weak topic
\* and a streak: last_active moves, the progress does not
C14_Witness ==
    /\ HadRow /\ obs.outcome = "get_or_create_user"
    /\ Before.total_exercises = 2
    /\ Before.streak_days = 2
    /\ Len(JsonLoads(Before.weak_topics)) = 1
    /\ After.last_active # Before.last_active

EngineCall(fn) == engine.fn = fn

\* C15: get_user_level(correct/total, total) is beginner when total < 10,
\* otherwise advanced when accuracy >= 0.85 and total >= 50, otherwise
\* intermediate when accuracy >= 0.70 and total >= 20, otherwise beginner; the
\* thresholds are inclusive, and total = 10 with accuracy 1.0 is beginner.
\* (SpecLevel)
C15_LevelTable ==
    EngineCall("get_user_level") =>
        LET a == engine.accuracy
            n == engine.total_exercises
            adv == n >= 50 /\ 100 * a[1] >= 85 * a[2]
            mid == n >= 20 /\ 100 * a[1] >= 70 * a[2] /\ ~adv
        IN  /\ engine.result = "advanced" <=> adv
            /\ engine.result = "intermediate" <=> mid
            /\ engine.result = "beginner" <=> (~adv /\ ~mid)
            /\ n < 10 => engine.result = "beginner"
            /\ (n = 10 /\ a = <<1, 1>>) => engine.result = "beginner"

\* accuracy exactly 0.85 with 60 exercises is advanced
C15_Witness ==
    /\ EngineCall("get_user_level")
    /\ engine.total_exercises = 60 /\ engine.accuracy = <<17, 20>>
    /\ engine.result = "advanced"

Rank(level) == CASE level = "beginner" -> 0 [] level = "intermediate" -> 1 [] level = "advanced" -> 2

\* C16: of two calls of get_user_level with the same total_exercises, the one
\* with the higher accuracy returns a level that ranks at least as high
\* (beginner < intermediate < advanced).  (SpecLevel)
C16_MonotonicInAccuracy ==
    [][(/\ EngineCall("get_user_level")
        /\ engine'.fn = "get_user_level"
        /\ engine'.total_exercises = engine.total_exercises
        /\ RealLe(engine.accuracy, engine'.accuracy))
          => Rank(engine.result) <= Rank(engine'.result)]_vars

\* a call at the lower threshold with enough exercises for it: the calls below
\* it are beginner, the calls above it intermediate
C16_Witness ==
    /\ EngineCall("get_user_level")
    /\ engine.total_exercises = 20 /\ engine.accuracy = <<7, 10>>
    /\ engine.result = "intermediate"

\* C17: calculate_difficulty returns 0.3 when total < 5; otherwise
\* min(0.9, 0.55 + total/120) when accuracy >= 0.9; otherwise
\* max(0.2, 0.45 - total/250) when accuracy <= 0.5, accuracy 0 included;
\* otherwise 0.5; the result is in [0.2, 0.9].  (SpecDifficulty)
\* 0.55 + total/120 = (66 + total)/120 reaches 0.9 at total = 42, and
\* 0.45 - total/250 = (225 - 2 total)/500 is below 0.2 from total = 63 on.
C17_DifficultyTable ==
    EngineCall("calculate_difficulty") =>
        LET a == engine.user_stats.accuracy
            n == engine.user_stats.total_exercises
            r == engine.result
            high == 10 * a[1] >= 9 * a[2]
            low == 2 * a[1] <= a[2]
        IN  /\ n < 5 => r = <<3, 10>>
            /\ (n >= 5 /\ high) => r = IF n >= 42 THEN <<9, 10>> ELSE Real(66 + n, 120)
            /\ (n >= 5 /\ ~high /\ low) => r = IF n >= 63 THEN <<1, 5>> ELSE Real(225 - 2 * n, 500)
            /\ (n >= 5 /\ ~high /\ ~low) => r = <<1, 2>>
            /\ 5 * r[1] >= r[2]
            /\ 10 * r[1] <= 9 * r[2]

\* accuracy exactly 0 with enough exercises for the floor
C17_Witness ==
    /\ EngineCall("calculate_difficulty")
    /\ engine.user_stats.accuracy = <<0, 1>>
    /\ engine.user_stats.total_exercises = 63
    /\ engine.result = <<1, 5>>

\* C18: with weak_topics not empty, recommend_topics returns its first three
\* entries in their order, all of them when there are fewer; with no weak
\* topics it returns the first five default topics of the level; the result
\* never has more than five entries.  (SpecRecommend)
C18_RecommendTopics ==
    EngineCall("recommend_topics") =>
        LET weak == engine.weak_topics
            r == engine.result
            default == Topics[engine.user_level]
        IN  /\ weak # <<>> =>
                  /\ Len(r) = IF Len(weak) < 3 THEN Len(weak) ELSE 3
                  /\ \A i \in 1..Len(r) : r[i] = weak[i]
            /\ (weak = <<>> /\ engine.user_level \in Levels) =>
                  /\ Len(r) = IF Len(default) < 5 THEN Len(default) ELSE 5
                  /\ \A i \in 1..Len(r) : r[i] = default[i]
            /\ Len(r) <= 5

\* four weak topics, the last one not among the first three
C18_Witness ==
    /\ EngineCall("recommend_topics")
    /\ Len(engine.weak_topics) = 4
    /\ \A i \in 1..3 : engine.weak_topics[i] # engine.weak_topics[4]
    /\ Len(engine.result) = 3

\* C19: evaluate_answer reports is_correct exactly when the two normalized
\* strings are equal, and then partial_match is false; no result has both
\* is_correct and partial_match; None and the empty string are answers like
\* any other.  (SpecAnswer)
C19_ExactMatch ==
    EngineCall("evaluate_answer") =>
        /\ engine.result.normalized_user = NormalizeAnswer(engine.user_answer)
        /\ engine.result.normalized_correct = NormalizeAnswer(engine.correct_answer)
        /\ engine.result.is_correct <=>
              (engine.result.normalized_user = engine.result.normalized_correct)
        /\ engine.result.is_correct => ~engine.result.partial_match
        /\ ~(engine.result.is_correct /\ engine.result.partial_match)

\* two different answers with the same normalized form, which has a word that
\* a partial match would count
C19_Witness ==
    /\ EngineCall("evaluate_answer")
    /\ engine.user_answer # engine.correct_answer
    /\ engine.result.is_correct
    /\ engine.result.normalized_user = <<"a">>

\* the one-letter words of an answer of NextWords
LettersOf(text) == {text[i] : i \in 1..Len(text)} \ {" "}

\* C20: when the normalized answers differ, partial_match is true exactly when
\* the expected answer has a word and the expected words that occur in the
\* user's answer are at least 0.6 of the distinct expected words.  (SpecWords)
C20_PartialMatch ==
    (EngineCall("evaluate_answer") /\ ~engine.result.is_correct) =>
        LET expected == LettersOf(engine.correct_answer)
            found == {w \in expected : w \in LettersOf(engine.user_answer)}
        IN  engine.result.partial_match <=>
                (expected # {} /\ 10 * Cardinality(found) >= 6 * Cardinality(expected))

\* three of five expected words: the ratio is 0.6
C20_Witness ==
    /\ EngineCall("evaluate_answer")
    /\ Cardinality(LettersOf(engine.correct_answer)) = 5
    /\ Cardinality(LettersOf(engine.correct_answer) \cap LettersOf(engine.user_answer)) = 3
    /\ engine.result.partial_match

----------------------------------------------------------------------------
(* C21..C26 *)

\* an apostrophe standing inside a word: a word character on either side
InsideWord(text, i) ==
    /\ 1 < i /\ i < Len(text)
    /\ IsWordChar(text[i - 1]) /\ IsWordChar(text[i + 1])

\* C21: the normalized form of an answer holds only letters, digits, single
\* spaces and apostrophes that stand inside a word: every other character,
\* a leading, trailing or lone apostrophe included, was replaced by a space.
\* (SpecAnswer)
C21_ApostropheOnlyInsideWord ==
    EngineCall("evaluate_answer") =>
        LET text == engine.result.normalized_user
        IN  \A i \in 1..Len(text) :
                \/ IsWordChar(text[i]) /\ text[i] # "_"
                \/ IsSpace(text[i])
                \/ text[i] = "'" /\ InsideWord(text, i)

\* C22: every row of exercise_history has a difficulty in [0, 1] and a
\* time_spent >= 0, whatever difficulty and time_spent the callers passed.
\* (SpecArgs)
C22_HistoryArgumentsInRange ==
    \A row \in BagToSet(history) :
        /\ RealGe(row.difficulty, Real(0, 1))
        /\ RealLe(row.difficulty, Real(1, 1))
        /\ row.time_spent >= 0

\* weak_topics of the row the last call found; none for a row it had to create
BeforeWeak == IF HadRow THEN JsonLoads(Before.weak_topics) ELSE <<>>

\* C23: a call changes weak_topics only when the answer is incorrect, the
\* topic is not empty and the topic is not in the list; after a correct
\* answer, a call without topic or a miss on a listed topic the list has the
\* same elements in the same order, and a correct answer removes no topic.
\* (SpecTopics)
C23_WeakTopicsFrame ==
    CallDone =>
        /\ AfterWeak # BeforeWeak =>
              (~obs.is_correct /\ obs.topic # 0 /\ ~Contains(BeforeWeak, obs.topic))
        /\ (obs.is_correct \/ obs.topic = 0 \/ Contains(BeforeWeak, obs.topic)) =>
              AfterWeak = BeforeWeak
        /\ obs.is_correct =>
              \A i \in 1..Len(BeforeWeak) : Contains(AfterWeak, BeforeWeak[i])

\* a correct answer on a topic that is listed, and not the only one
C23_Witness ==
    /\ CallDone /\ obs.is_correct
    /\ Len(BeforeWeak) >= 2
    /\ Contains(BeforeWeak, obs.topic)
    /\ AfterWeak = BeforeWeak

\* C24: for a user created by record_exercise, whatever the clock does between
\* the calls: last_exercise_date is absent exactly when total_exercises = 0;
\* once an exercise is recorded, streak_days >= 1 and last_exercise_date is
\* the date of the most recent call that recorded one.  (SpecClock)
C24_DateAndStreak ==
    \A t \in TelegramIds :
        users[t] # NoRow =>
            /\ users[t].last_exercise_date = NullDate <=> users[t].total_exercises = 0
            /\ users[t].total_exercises = 0 <=> first_of_day[t] = NoFirst
            /\ users[t].total_exercises >= 1 =>
                  /\ users[t].streak_days >= 1
                  /\ users[t].last_exercise_date = IsoFormat(first_of_day[t].day)

\* a call made with the clock set back to before the stored date, on a streak
\* of 2: the streak starts again at 1
C24_Witness ==
    /\ CallDone /\ HadRow
    /\ Before.streak_days = 2
    /\ Before.last_exercise_date # NullDate
    /\ FromIsoFormat(Before.last_exercise_date) > obs.day
    /\ After.streak_days = 1
    /\ After.last_exercise_date = IsoFormat(obs.day)

\* C25: after any sequence of completed calls made one after the other from
\* a new user, the user's exercise_history rows are as many as
\* total_exercises, and those with is_correct = 1 as many as correct_answers.
\* (SpecArgs)
C25_HistoryMatchesCounters ==
    /\ \A t \in TelegramIds :
          users[t] # NoRow =>
              /\ RowsOfId(history, users[t].id) = users[t].total_exercises
              /\ CorrectRowsOfId(history, users[t].id) = users[t].correct_answers
    /\ (\A t \in TelegramIds : users[t] = NoRow) => history = EmptyBag

\* three calls, two of them correct, that left three different rows
C25_Witness ==
    /\ users[1] # NoRow
    /\ users[1].total_exercises = 3
    /\ users[1].correct_answers = 2
    /\ Cardinality(BagToSet(history)) = 3

\* the messages stored for a user
Stored(u) == lists[conversation_history[u]]

\* C26: the conversation stored for a user always starts with the system
\* prompt and never holds more than 12 messages; clear_conversation on a user
\* with a conversation leaves exactly the system prompt.  (SpecChat)
C26_ConversationBounded ==
    /\ [](\A u \in ChatIds :
            conversation_history[u] # 0 =>
                /\ Stored(u) # <<>>
                /\ Stored(u)[1] = DeveloperPrompt
                /\ Len(Stored(u)) <= 12)
    /\ [][\A u \in ChatIds :
            (ask' = ask /\ conversation_history[u] # 0
                /\ conversation_history'[u] # conversation_history[u])
                => lists'[conversation_history'[u]] = <<DeveloperPrompt>>]_vars

====
